---------------------------- MODULE Spec2Model ----------------------------
(***************************************************************************)
(* A model of merge-gpx: the interactive merge script (src/mergeGpx.ts)    *)
(* and the single-file retiming script (src/unnamed/part_000).             *)
(*                                                                         *)
(* Track points are heap objects (obj maps an object id to its fields), so *)
(* that the arrays of the program -- beginXml...trkpt, endXml...trkpt and  *)
(* toMerge -- hold references, as they do in JavaScript.                   *)
(*                                                                         *)
(* A JavaScript number is a record [k, v]: k is "num", "NaN" or            *)
(* "Infinity".  A fractional double is carried as a fixed-point number of  *)
(* Scale units per 1 whose every multiplication rounds to nearest, as the  *)
(* IEEE-754 operations of the engine do at their own precision; Math.sin   *)
(* and Math.cos are tabulated, rounded to nearest, at the angles of the    *)
(* coordinate grid.  On that grid the model agrees with the double         *)
(* computation on which results are NaN, which are 0 and on the order of   *)
(* the distances.                                                          *)
(***************************************************************************)
EXTENDS Integers, Sequences, FiniteSets, TLC

VARIABLES
  prog,             \* which script runs: "mergeGpx", "fixTimes", or a function under test
  pc,               \* position of the running script
  obj,              \* heap: object id -> TrkPrt fields [time, ele, lat, lon]
  orig,             \* the heap as the files were parsed (history, never changes)
  beginXml,         \* beginXml.gpx.trk.trkseg.trkpt: sequence of object ids
  endXml,           \* endXml.gpx.trk.trkseg.trkpt: sequence of object ids
  thresholdMeters,  \* args.mergeThresholdMeters
  index,            \* loop index of findMergePoint / idx of the single-file script
  minDist,          \* running minimum of findMergePoint
  toMerge,          \* toMerge: sequence of object ids
  dist,             \* dist of the point being evaluated (line 122)
  prompts,          \* what console.info showed for each candidate, in order
  answer,           \* the operator's last answer to rl.question
  console,          \* the other console messages, in order
  file,             \* files written: sequence of serialized point sequences
  fnArgs,           \* arguments of the function under test
  fnResult          \* its result

vars == <<prog, pc, obj, orig, beginXml, endXml, thresholdMeters, index, minDist,
          toMerge, dist, prompts, answer, console, file, fnArgs, fnResult>>

(***************************************************************************)
(* Bounds of the model.                                                    *)
(***************************************************************************)
MaxBegin == 4
MaxEnd == 2

(***************************************************************************)
(* JavaScript numbers.                                                     *)
(***************************************************************************)
Num(v) == [k |-> "num", v |-> v]
NaN == [k |-> "NaN", v |-> 0]
POSITIVE_INFINITY == [k |-> "Infinity", v |-> 0]

\* x <= y of JavaScript: false when either side is NaN.
Leq(x, y) ==
  IF x.k = "NaN" \/ y.k = "NaN" THEN FALSE
  ELSE IF y.k = "Infinity" THEN TRUE
  ELSE IF x.k = "Infinity" THEN FALSE
  ELSE x.v <= y.v

\* Number.parseFloat on the coordinate strings of the model; a string that
\* does not start with a number gives NaN.
parseFloat(s) ==
  CASE s = "-12" -> Num(-12)
    [] s = "-1" -> Num(-1)
    [] s = "0" -> Num(0)
    [] s = "0.0" -> Num(0)
    [] s = "1" -> Num(1)
    [] s = "5" -> Num(5)
    [] s = "12" -> Num(12)
    [] s = "12.0" -> Num(12)
    [] s = "90" -> Num(90)
    [] s = "180" -> Num(180)
    [] OTHER -> NaN

(***************************************************************************)
(* class LatLng                                                            *)
(***************************************************************************)
LatLng(lat, lng) == [lat |-> parseFloat(lat), lng |-> parseFloat(lng)]

fromTrkPrt(trkPrt) == LatLng(trkPrt.lat, trkPrt.lon)

\* isBetween with a conjunction of the two interval tests (a mutant).
isBetweenAnd(this, latLng1, latLng2) ==
  /\ (Leq(latLng1.lat, this.lat) /\ Leq(this.lat, latLng2.lat))
     \/ (Leq(latLng2.lat, this.lat) /\ Leq(this.lat, latLng1.lat))
  /\ (Leq(latLng1.lng, this.lng) /\ Leq(this.lng, latLng2.lng))
     \/ (Leq(latLng2.lng, this.lng) /\ Leq(this.lng, latLng1.lng))

\* Lines 69-80.
isBetween(this, latLng1, latLng2) ==
  \/ (Leq(latLng1.lat, this.lat) /\ Leq(this.lat, latLng2.lat))
  \/ (Leq(latLng2.lat, this.lat) /\ Leq(this.lat, latLng1.lat))
  \/ (Leq(latLng1.lng, this.lng) /\ Leq(this.lng, latLng2.lng))
  \/ (Leq(latLng2.lng, this.lng) /\ Leq(this.lng, latLng1.lng))

(***************************************************************************)
(* haversineDist                                                           *)
(***************************************************************************)
\* Units per 1 of the fixed-point numbers that stand for fractional doubles.
Scale == 2 * 100

\* A product p rounded to nearest.
Rounded[p \in Int] ==
  LET m == IF p < 0 THEN 0 - p ELSE p
      r == (2 * m + Scale) \div (2 * Scale)
  IN IF p < 0 THEN 0 - r ELSE r

\* x * y rounded to nearest.
Mul(x, y) == Rounded[x * y]

\* Math.sin((deg * Math.PI / 180) / 2) for a difference deg of two grid
\* coordinates, rounded to nearest.
SinHalf(deg) ==
  LET d == IF deg < 0 THEN 0 - deg ELSE deg
      s == CASE d = 0 -> 0
             [] d = 12 -> 21
             [] d = 24 -> 42
             [] d = 90 -> 141
             [] d = 180 -> 200
  IN IF deg < 0 THEN 0 - s ELSE s

\* Math.cos(deg * Math.PI / 180) for a grid latitude, rounded to nearest.
Cos(deg) ==
  CASE deg = 0 -> 200
    [] deg = 12 -> 196
    [] deg = -12 -> 196

\* 2 * Math.atan2(Math.sqrt(a), Math.sqrt(1 - a)) in milliradians, for the
\* values of a the grid produces.  Math.sqrt of a negative number is NaN and
\* Math.atan2 of a NaN is NaN.
Angle[a \in Int] ==
  IF Scale - a < 0 THEN NaN
  ELSE Num(CASE a = 0 -> 0
             [] a = 2 -> 200
             [] a = 9 -> 428
             [] a = 95 -> 1521
             [] a = 99 -> 1561
             [] a = 104 -> 1611
             [] a = 192 -> 2739
             [] a = 198 -> 2941
             [] a = 200 -> 3142)

CentralAngle(a) == Angle[a]

\* Earth radius in metres.
R == 6371000

HaversineTerm(latLng1, latLng2) ==
  LET sinDphi == SinHalf(latLng2.lat.v - latLng1.lat.v)
      sinDlam == SinHalf(latLng2.lng.v - latLng1.lng.v)
  IN Mul(sinDphi, sinDphi)
     + Mul(Mul(Mul(Cos(latLng1.lat.v), Cos(latLng2.lat.v)), sinDlam), sinDlam)

\* The distance in metres (R * c), or NaN.
haversineDist(latLng1, latLng2) ==
  IF \E n \in {latLng1.lat, latLng1.lng, latLng2.lat, latLng2.lng} : n.k # "num"
  THEN NaN
  ELSE LET c == CentralAngle(HaversineTerm(latLng1, latLng2))
       IN IF c.k = "NaN" THEN NaN ELSE Num((R \div 1000) * c.v)


(***************************************************************************)
(* Date                                                                    *)
(*                                                                         *)
(* A time string is [fmt, ms]: fmt "sec" is a string like                  *)
(* 2021-12-18T20:14:37Z, "ms" is the form toISOString produces             *)
(* (2021-12-18T20:14:37.000Z), and "none" is an absent or unparseable      *)
(* time; ms is the instant the string denotes.                             *)
(***************************************************************************)
DateParse(time) == IF time.fmt \in {"sec", "ms"} THEN Num(time.ms) ELSE NaN

toISOString(ms) == [fmt |-> "ms", ms |-> ms]

(***************************************************************************)
(* The inputs.                                                             *)
(***************************************************************************)
DefaultThreshold == 10

\* The end Track's first point, and the coordinates the begin Track draws on.
FirstEndCoord == [lat |-> "0", lon |-> "0"]

BeginCoords ==
  { [lat |-> "0.0", lon |-> "0"], [lat |-> "12", lon |-> "0"],
    [lat |-> "12.0", lon |-> "90"] }

Thresholds ==
  {Num(DefaultThreshold)} \cup
  { haversineDist(fromTrkPrt(FirstEndCoord), fromTrkPrt(c)) : c \in BeginCoords }

\* The time of the end Track's first point: whole seconds, with a fraction
\* of a second, or none.
EndTimes ==
  { [fmt |-> "sec", ms |-> 50000], [fmt |-> "ms", ms |-> 50250],
    [fmt |-> "none", ms |-> 0] }

Answers ==
  { <<"y">>, <<"Y", "E", "S">>, <<"n">>, <<>>, <<"o", "k", "a", "y">> }

None == <<"-">>

TrkPrt(time, ele, coord) ==
  [time |-> time, ele |-> ele, lat |-> coord.lat, lon |-> coord.lon]

\* The heap after parsing two files: begin points are objects 1..nb, end
\* points are objects nb+1..nb+ne.
ParsedHeap(coords, ne, endTime) ==
  LET nb == Len(coords) IN
  [id \in 1..(nb + ne) |->
     IF id <= nb
     THEN TrkPrt([fmt |-> "sec", ms |-> 1000 * (100 + id)], 100 + id, coords[id])
     ELSE IF id = nb + 1
     THEN TrkPrt(endTime, 200, FirstEndCoord)
     ELSE TrkPrt([fmt |-> "sec", ms |-> 50000 + 1000 * (id - nb - 1)], 200 + id - nb - 1,
                 [lat |-> "0", lon |-> "180"])]

Range(lo, hi) == [i \in 1..(hi - lo + 1) |-> lo + i - 1]

CoordSeqs == UNION { [1..n -> BeginCoords] : n \in 0..MaxBegin }

Idle ==
  /\ index = 0
  /\ minDist = NaN
  /\ toMerge = <<>>
  /\ dist = NaN
  /\ prompts = <<>>
  /\ answer = None
  /\ console = <<>>
  /\ file = <<>>

NoFunction ==
  /\ fnArgs = <<>>
  /\ fnResult = None

\* loadFiles, and the arguments of the command line.
InitMerge ==
  \E coords \in CoordSeqs, ne \in 1..MaxEnd, endTime \in EndTimes, thr \in Thresholds :
    /\ prog = "mergeGpx"
    /\ pc = "findMergePoint"
    /\ obj = ParsedHeap(coords, ne, endTime)
    /\ orig = obj
    /\ beginXml = Range(1, Len(coords))
    /\ endXml = Range(Len(coords) + 1, Len(coords) + ne)
    /\ thresholdMeters = thr
    /\ Idle
    /\ NoFunction

(***************************************************************************)
(* findMergePoint                                                          *)
(***************************************************************************)
firstEndLatLng == fromTrkPrt(obj[endXml[1]])

\* Lines 106-115: the header messages and the initial values.
FindMergePointStart ==
  /\ prog = "mergeGpx" /\ pc = "findMergePoint"
  /\ console' = Append(console, "Point to merge with")
  /\ minDist' = POSITIVE_INFINITY
  /\ toMerge' = <<>>
  /\ index' = 0
  /\ pc' = "loop"
  /\ UNCHANGED <<prog, obj, orig, beginXml, endXml, thresholdMeters, dist, prompts,
                 answer, file, fnArgs, fnResult>>

\* Line 124 with < for <= (a mutant).
QualifiesStrictly(d, threshold) == Leq(d, threshold) /\ d # threshold

\* Line 124 without the test (a mutant).
QualifiesAlways(d, threshold) == TRUE

\* Line 124.
Qualifies(d, threshold) == Leq(d, threshold)

\* Line 126 without the test (a mutant).
IsMinDistAlways(d, min) == TRUE

\* Line 126 with < for <= (a mutant).
IsMinDistStrictly(d, min) == Leq(d, min) /\ d # min

\* Line 126.
IsMinDist(d, min) == Leq(d, min)

\* Lines 135-145 testing the last point against itself (a mutant).
InBetweenOrSelf(i, trkPrts) ==
  IF i < Len(trkPrts) - 1
  THEN isBetween(firstEndLatLng, fromTrkPrt(obj[trkPrts[i + 1]]),
                 fromTrkPrt(obj[trkPrts[i + 2]]))
  ELSE isBetween(firstEndLatLng, fromTrkPrt(obj[trkPrts[i + 1]]),
                 fromTrkPrt(obj[trkPrts[i + 1]]))

\* Lines 135-145: false when there is no next point.
InBetween(i, trkPrts) ==
  IF i < Len(trkPrts) - 1
  THEN isBetween(firstEndLatLng, fromTrkPrt(obj[trkPrts[i + 1]]),
                 fromTrkPrt(obj[trkPrts[i + 2]]))
  ELSE FALSE

\* The distance line 147 prints.
ShownDistance(d, min) == min

\* Lines 117-159: one iteration of the loop up to the question; trkPrt and
\* d are the constants of lines 118 and 122.
LoopBody ==
  /\ prog = "mergeGpx" /\ pc = "loop"
  /\ index < Len(beginXml)
  /\ \E trkPrt \in {beginXml[index + 1]} :
     \E d \in {haversineDist(firstEndLatLng, fromTrkPrt(obj[trkPrt]))} :
        /\ toMerge' = Append(toMerge, trkPrt)
        /\ dist' = d
        /\ IF Qualifies(d, thresholdMeters)
           THEN LET isMinDist == IsMinDist(d, minDist)
                    newMin == IF isMinDist THEN d ELSE minDist
                IN /\ minDist' = newMin
                   /\ prompts' = Append(prompts,
                        [index |-> index,
                         distance |-> ShownDistance(d, newMin),
                         inBetween |-> InBetween(index, beginXml),
                         isMinDist |-> isMinDist])
                   /\ pc' = "userConfirm"
                   /\ index' = index
           ELSE /\ index' = index + 1
                /\ UNCHANGED <<minDist, prompts, pc>>
  /\ UNCHANGED <<prog, obj, orig, beginXml, endXml, thresholdMeters, answer, console,
                 file, fnArgs, fnResult>>

\* Line 117 false, line 168.
LoopExit ==
  /\ prog = "mergeGpx" /\ pc = "loop"
  /\ ~(index < Len(beginXml))
  /\ console' = Append(console, "No merge point found")
  /\ pc' = "exhausted"
  /\ UNCHANGED <<prog, obj, orig, beginXml, endXml, thresholdMeters, index, minDist,
                 toMerge, dist, prompts, answer, file, fnArgs, fnResult>>

(***************************************************************************)
(* userConfirm                                                             *)
(***************************************************************************)
toLowerCase(s) ==
  [i \in 1..Len(s) |->
     CASE s[i] = "Y" -> "y"
       [] s[i] = "E" -> "e"
       [] s[i] = "S" -> "s"
       [] OTHER -> s[i]]

\* String.prototype.match with the pattern "(y|yes)": the pattern is not
\* anchored, so it matches wherever the string holds y or yes.
Match(s) ==
  \E i \in 1..Len(s) :
    \/ s[i] = "y"
    \/ (i + 2 <= Len(s) /\ s[i] = "y" /\ s[i + 1] = "e" /\ s[i + 2] = "s")

userConfirm(ans) == Match(toLowerCase(ans))

\* Lines 197-202: the question is asked and the operator answers.
Question ==
  /\ prog = "mergeGpx" /\ pc = "userConfirm"
  /\ \E ans \in Answers : answer' = ans
  /\ pc' = "answered"
  /\ UNCHANGED <<prog, obj, orig, beginXml, endXml, thresholdMeters, index, minDist,
                 toMerge, dist, prompts, console, file, fnArgs, fnResult>>

\* Line 161 without the test of the answer (a mutant).
ResolveIgnoringAnswer ==
  /\ prog = "mergeGpx" /\ pc = "answered"
  /\ pc' = "mergeFiles"
  /\ UNCHANGED <<prog, obj, orig, beginXml, endXml, thresholdMeters, index, minDist,
                 toMerge, dist, prompts, answer, console, file, fnArgs, fnResult>>

\* Lines 161-165 asking the same question again after a rejection (a mutant).
ResolveAskingAgain ==
  /\ prog = "mergeGpx" /\ pc = "answered"
  /\ IF userConfirm(answer)
     THEN pc' = "mergeFiles"
     ELSE pc' = "userConfirm"
  /\ UNCHANGED <<prog, obj, orig, beginXml, endXml, thresholdMeters, index, minDist,
                 toMerge, dist, prompts, answer, console, file, fnArgs, fnResult>>

\* Lines 203-208 and 161-165: the promise resolves and the loop goes on.
Resolve ==
  /\ prog = "mergeGpx" /\ pc = "answered"
  /\ IF userConfirm(answer)
     THEN /\ pc' = "mergeFiles"
          /\ index' = index
     ELSE /\ pc' = "loop"
          /\ index' = index + 1
  /\ UNCHANGED <<prog, obj, orig, beginXml, endXml, thresholdMeters, minDist,
                 toMerge, dist, prompts, answer, console, file, fnArgs, fnResult>>

(***************************************************************************)
(* mergeFiles                                                              *)
(***************************************************************************)
\* Line 180 one second late (a mutant).
startTimeMsLate(timeToReachMs, length) == timeToReachMs - (length - 1) * 1000

\* Line 180.
startTimeMs(timeToReachMs, length) == timeToReachMs - length * 1000

\* The instant line 183 gives the point at position i (from 0).
RetimedMs(start, i) == start + i * 1000

\* Lines 182-185 rewriting the time of every point of both Tracks (a mutant).
RetimeAll(heap, trkPrts, start) ==
  [id \in DOMAIN heap |-> [heap[id] EXCEPT !.time = toISOString(RetimedMs(start, id - 1))]]

\* _.forEach(toMerge, ...): the objects toMerge refers to get their new time,
\* in order, so the last position of an object decides.
Retime(heap, trkPrts, start) ==
  [id \in DOMAIN heap |->
     IF \E i \in 1..Len(trkPrts) : trkPrts[i] = id
     THEN LET last == CHOOSE i \in 1..Len(trkPrts) :
                        /\ trkPrts[i] = id
                        /\ \A j \in (i + 1)..Len(trkPrts) : trkPrts[j] # id
          IN [heap[id] EXCEPT !.time = toISOString(RetimedMs(start, last - 1))]
     ELSE heap[id]]

\* XMLBuilder.build: the points as they are when the file is written.
Serialize(heap, trkPrts) == [i \in 1..Len(trkPrts) |-> heap[trkPrts[i]]]

\* Line 187 with the two arrays the other way round (a mutant).
SplicedEndFirst(prefix, endTrkPrts) == endTrkPrts \o prefix

\* Line 187.
Spliced(prefix, endTrkPrts) == prefix \o endTrkPrts

\* Lines 176-185 with a conversion that does not throw on an invalid date:
\* the points get the string of an invalid date (a mutant).
MergeFilesRetimeInvalidDate ==
  /\ prog = "mergeGpx" /\ pc = "mergeFiles"
  /\ console' = Append(console, "merging")
  /\ LET timeToReachMs == DateParse(obj[endXml[1]].time)
     IN obj' = IF timeToReachMs.k = "NaN"
               THEN [id \in DOMAIN obj |->
                       IF \E i \in 1..Len(toMerge) : toMerge[i] = id
                       THEN [obj[id] EXCEPT !.time = [fmt |-> "none", ms |-> 0]]
                       ELSE obj[id]]
               ELSE Retime(obj, toMerge, startTimeMs(timeToReachMs.v, Len(toMerge)))
  /\ pc' = "splice"
  /\ UNCHANGED <<prog, orig, beginXml, endXml, thresholdMeters, index, minDist, toMerge,
                 dist, prompts, answer, file, fnArgs, fnResult>>

\* Lines 176-185.  new Date(NaN).toISOString() throws a RangeError in the
\* first iteration, before any time is assigned, and the promise of
\* findMergePoint is rejected.
MergeFilesRetime ==
  /\ prog = "mergeGpx" /\ pc = "mergeFiles"
  /\ console' = Append(console, "merging")
  /\ LET timeToReachMs == DateParse(obj[endXml[1]].time)
     IN IF timeToReachMs.k = "NaN" /\ Len(toMerge) > 0
        THEN /\ pc' = "rejected"
             /\ obj' = obj
        ELSE /\ pc' = "splice"
             /\ obj' = Retime(obj, toMerge, startTimeMs(timeToReachMs.v, Len(toMerge)))
  /\ UNCHANGED <<prog, orig, beginXml, endXml, thresholdMeters, index, minDist, toMerge,
                 dist, prompts, answer, file, fnArgs, fnResult>>

\* Line 187 followed by a second forEach, over the merged array (a mutant).
MergeFilesSpliceRetiming ==
  /\ prog = "mergeGpx" /\ pc = "splice"
  /\ endXml' = Spliced(toMerge, endXml)
  /\ obj' = Retime(obj, endXml', 0)
  /\ pc' = "write"
  /\ UNCHANGED <<prog, orig, beginXml, thresholdMeters, index, minDist, toMerge,
                 dist, prompts, answer, console, file, fnArgs, fnResult>>

\* Line 187.
MergeFilesSplice ==
  /\ prog = "mergeGpx" /\ pc = "splice"
  /\ endXml' = Spliced(toMerge, endXml)
  /\ pc' = "write"
  /\ UNCHANGED <<prog, obj, orig, beginXml, thresholdMeters, index, minDist, toMerge,
                 dist, prompts, answer, console, file, fnArgs, fnResult>>

\* Lines 189-192.
MergeFilesWrite ==
  /\ prog = "mergeGpx" /\ pc = "write"
  /\ file' = Append(file, Serialize(obj, endXml))
  /\ pc' = "written"
  /\ UNCHANGED <<prog, obj, orig, beginXml, endXml, thresholdMeters, index, minDist,
                 toMerge, dist, prompts, answer, console, fnArgs, fnResult>>

\* Line 193, and the return of line 163.
MergeFilesEnd ==
  /\ prog = "mergeGpx" /\ pc = "written"
  /\ console' = Append(console, "merged output written")
  /\ pc' = "confirmed"
  /\ UNCHANGED <<prog, obj, orig, beginXml, endXml, thresholdMeters, index, minDist,
                 toMerge, dist, prompts, answer, file, fnArgs, fnResult>>

(***************************************************************************)
(* The single-file script.  Instants are milliseconds after                *)
(* 2021-12-18T20:13:00Z, so that timeToReach, 20:14:37Z, is 97000.         *)
(***************************************************************************)
timeToReach == [fmt |-> "sec", ms |-> 97 * 1000]

FixStartTimeMs(timeToReachMs, count) == timeToReachMs - (count * 1000)

FixRetimedMs(start, idx) == start + (idx * 1000)

\* Lines 17-28: the file is parsed.
InitFix ==
  \E coords \in CoordSeqs :
    /\ prog = "fixTimes"
    /\ pc = "forEach"
    /\ obj = ParsedHeap(coords, 0, timeToReach)
    /\ orig = obj
    /\ beginXml = Range(1, Len(coords))
    /\ endXml = <<>>
    /\ thresholdMeters = NaN
    /\ Idle
    /\ NoFunction

\* Lines 30-48: one call of the forEach callback.
FixForEach ==
  /\ prog = "fixTimes" /\ pc = "forEach"
  /\ index < Len(beginXml)
  /\ LET trkPrt == beginXml[index + 1]
         start == FixStartTimeMs(DateParse(timeToReach).v, Len(beginXml))
     IN /\ obj' = [obj EXCEPT ![trkPrt].time = toISOString(FixRetimedMs(start, index))]
        /\ IF index < Len(beginXml) - 1
           THEN /\ dist' = haversineDist(fromTrkPrt(obj[trkPrt]),
                                         fromTrkPrt(obj[beginXml[index + 2]]))
                /\ console' = console \o <<"time", "distance", "speed">>
           ELSE /\ dist' = dist
                /\ console' = Append(console, "time")
  /\ index' = index + 1
  /\ UNCHANGED <<prog, pc, orig, beginXml, endXml, thresholdMeters, minDist, toMerge,
                 prompts, answer, file, fnArgs, fnResult>>

\* Lines 50-53.
FixWrite ==
  /\ prog = "fixTimes" /\ pc = "forEach"
  /\ ~(index < Len(beginXml))
  /\ file' = Append(file, Serialize(obj, beginXml))
  /\ pc' = "done"
  /\ UNCHANGED <<prog, obj, orig, beginXml, endXml, thresholdMeters, index, minDist,
                 toMerge, dist, prompts, answer, console, fnArgs, fnResult>>

(***************************************************************************)
(* The two scripts.                                                        *)
(***************************************************************************)
Init == InitMerge \/ InitFix

Next ==
  \/ FindMergePointStart
  \/ LoopBody
  \/ LoopExit
  \/ Question
  \/ Resolve
  \/ MergeFilesRetime
  \/ MergeFilesSplice
  \/ MergeFilesWrite
  \/ MergeFilesEnd
  \/ FixForEach
  \/ FixWrite

Spec == Init /\ [][Next]_vars

\* The scripts run on: the event loop takes every step that is possible, and
\* the operator answers every question.
FairSpec == Spec /\ WF_vars(Next)

(***************************************************************************)
(* LatLng.isBetween and haversineDist on their own, over all the points of *)
(* a small set.                                                            *)
(***************************************************************************)
NoScript ==
  /\ obj = <<>>
  /\ orig = <<>>
  /\ beginXml = <<>>
  /\ endXml = <<>>
  /\ thresholdMeters = NaN
  /\ Idle

BetweenCoords == {"-1", "0", "1", "5", "north"}

BetweenPoints == { LatLng(lat, lng) : lat \in BetweenCoords, lng \in BetweenCoords }

InitBetween ==
  /\ prog = "isBetween"
  /\ pc = "call"
  /\ fnArgs \in BetweenPoints \X BetweenPoints \X BetweenPoints
  /\ fnResult = None
  /\ NoScript

CallIsBetween ==
  /\ prog = "isBetween" /\ pc = "call"
  /\ fnResult' = isBetween(fnArgs[1], fnArgs[2], fnArgs[3])
  /\ pc' = "return"
  /\ UNCHANGED <<prog, obj, orig, beginXml, endXml, thresholdMeters, index, minDist,
                 toMerge, dist, prompts, answer, console, file, fnArgs>>

SpecBetween == InitBetween /\ [][CallIsBetween]_vars

GridPoints == { LatLng(lat, lng) : lat \in {"-12", "0", "12"}, lng \in {"0", "90", "180"} }

InitHaversine ==
  /\ prog = "haversineDist"
  /\ pc = "call"
  /\ fnArgs \in GridPoints \X GridPoints
  /\ fnResult = <<>>
  /\ NoScript

\* haversineDist(a, b), then haversineDist(b, a).
CallHaversineDist ==
  /\ prog = "haversineDist" /\ pc = "call"
  /\ fnResult' = <<haversineDist(fnArgs[1], fnArgs[2])>>
  /\ pc' = "swapped"
  /\ UNCHANGED <<prog, obj, orig, beginXml, endXml, thresholdMeters, index, minDist,
                 toMerge, dist, prompts, answer, console, file, fnArgs>>

CallHaversineDistSwapped ==
  /\ prog = "haversineDist" /\ pc = "swapped"
  /\ fnResult' = Append(fnResult, haversineDist(fnArgs[2], fnArgs[1]))
  /\ pc' = "return"
  /\ UNCHANGED <<prog, obj, orig, beginXml, endXml, thresholdMeters, index, minDist,
                 toMerge, dist, prompts, answer, console, file, fnArgs>>

NextHaversine == CallHaversineDist \/ CallHaversineDistSwapped

SpecHaversine == InitHaversine /\ [][NextHaversine]_vars

(***************************************************************************)
(* What the claims speak of.                                               *)
(***************************************************************************)
Merging == prog = "mergeGpx"

\* The numbers of points of the two Tracks as loaded.
NB == Len(beginXml)
NE == Len(orig) - Len(beginXml)

\* The computed distance of the begin-Track point at index i (from 0) to the
\* end Track's first point.
OwnDist(i) == haversineDist(fromTrkPrt(orig[NB + 1]), fromTrkPrt(orig[i + 1]))

\* The indices below n whose distance is within the threshold.
WithinThreshold(n) ==
  { i \in 0..(n - 1) :
      LET d == OwnDist(i)
      IN /\ d.k = "num"
         /\ thresholdMeters.k = "num"
         /\ d.v <= thresholdMeters.v }

\* The operator has accepted a candidate.
Accepted == pc \in {"mergeFiles", "splice", "write", "written", "confirmed", "rejected"}

Searching == pc \in {"findMergePoint", "loop", "userConfirm", "answered"}

LastPrompt == prompts[Len(prompts)]

SameCoordsAndEle(p, q) == p.lat = q.lat /\ p.lon = q.lon /\ p.ele = q.ele

\* C1: the output file is written at most once, and only after the operator
\* accepted a candidate; while the search runs or waits, and when it ends
\* without an acceptance, nothing has been written.
C1_WrittenOnceAfterAcceptance ==
  Merging =>
    /\ Len(file) <= 1
    /\ file # <<>> =>
         /\ pc \in {"written", "confirmed"}
         /\ prompts # <<>>
         /\ Match(toLowerCase(answer))
         /\ LastPrompt.index = Len(toMerge) - 1
    /\ (Searching \/ pc = "exhausted") => file = <<>>

\* C1 witness: the file is written after an earlier candidate was rejected.
C1_Witness ==
  /\ Merging
  /\ Len(file) = 1
  /\ Len(prompts) >= 2
  /\ pc = "confirmed"

\* C2: accepting the candidate at index i writes (i+1) + length(endTrack)
\* points: the begin-Track points 0..i in their order, then all end-Track
\* points in their order, and no begin-Track point above i.
C2_WrittenSequence ==
  (Merging /\ file # <<>>) =>
    LET i == LastPrompt.index
        out == file[1]
    IN /\ Len(out) = (i + 1) + NE
       /\ \A k \in 1..(i + 1) : SameCoordsAndEle(out[k], orig[k])
       /\ \A j \in 1..NE : SameCoordsAndEle(out[i + 1 + j], orig[NB + j])
       /\ \A k \in 1..Len(out) : \A b \in (i + 2)..NB : out[k].ele # orig[b].ele

\* C2 witness: the accepted candidate follows a rejected candidate and a
\* point beyond the threshold, and is not the last begin-Track point.
C2_Witness ==
  /\ Merging
  /\ file # <<>>
  /\ Len(prompts) >= 2
  /\ LastPrompt.index + 1 < NB
  /\ \E k \in 0..LastPrompt.index : k \notin WithinThreshold(NB)
  /\ NE >= 2

\* C3: retiming N points towards T gives the point at index i the instant
\* T - (N - i) seconds: in mergeFiles T is the original time of the end
\* Track's first point and N the prefix length, so the last prefix point is
\* 1 second before it; the single-file script does the same with the track
\* length and its fixed arrival time.
C3_Retimed ==
  /\ (Merging /\ pc \in {"splice", "write", "written", "confirmed"}) =>
       LET T == orig[NB + 1].time.ms
           N == Len(toMerge)
       IN /\ \A i \in 0..(N - 1) :
               obj[toMerge[i + 1]].time = [fmt |-> "ms", ms |-> T - (N - i) * 1000]
          /\ \A i \in 0..(N - 2) :
               obj[toMerge[i + 2]].time.ms = obj[toMerge[i + 1]].time.ms + 1000
          /\ obj[toMerge[N]].time.ms = T - 1000
          /\ file # <<>> =>
               \A i \in 0..(N - 1) : file[1][i + 1].time.ms = T - (N - i) * 1000
  /\ prog = "fixTimes" =>
       LET T == 97000
           N == Len(beginXml)
       IN /\ \A i \in 0..(index - 1) :
               obj[beginXml[i + 1]].time = [fmt |-> "ms", ms |-> T - (N - i) * 1000]
          /\ file # <<>> =>
               /\ Len(file[1]) = N
               /\ \A i \in 0..(N - 1) : file[1][i + 1].time.ms = T - (N - i) * 1000

\* C3 witness: a prefix of three points retimed towards an end time with a
\* fraction of a second, and written.
C3_Witness ==
  /\ Merging
  /\ pc = "confirmed"
  /\ Len(toMerge) >= 3
  /\ orig[NB + 1].time.ms = 50250
  /\ file[1][3].time.ms = 49250

\* The single-file script has retimed and written a track of three points.
C3_SingleFileReached ==
  /\ prog = "fixTimes"
  /\ pc = "done"
  /\ Len(beginXml) = 3
  /\ file[1][3].time = [fmt |-> "ms", ms |-> 96000]

\* C4: the operator is asked exactly once for each scanned point whose
\* distance is <= thresholdMeters and never for another one, in increasing
\* index order; after a rejection at i the scan resumes at i+1, and after an
\* acceptance no further point is evaluated.
C4_OnePromptPerCandidate ==
  Merging =>
    /\ { prompts[k].index : k \in 1..Len(prompts) } = WithinThreshold(Len(toMerge))
    /\ \A k \in 1..(Len(prompts) - 1) : prompts[k].index < prompts[k + 1].index
    /\ pc = "loop" => index = Len(toMerge)
    /\ pc \in {"userConfirm", "answered"} =>
         LastPrompt.index = index /\ Len(toMerge) = index + 1
    /\ Accepted => Len(toMerge) = LastPrompt.index + 1

\* C4 witness: the scan resumed after a rejection, passed a point beyond the
\* threshold and asked again, for a point exactly at the threshold.
C4_Witness ==
  /\ Merging
  /\ pc = "userConfirm"
  /\ Len(prompts) >= 2
  /\ \E k \in 0..index : k \notin WithinThreshold(NB)
  /\ OwnDist(index) = thresholdMeters
  /\ thresholdMeters # Num(0)

\* C5: when no begin-Track point is within the threshold (an empty begin
\* Track included) the search ends Exhausted without a prompt or a write and
\* reports the no-merge-point message; so it does when every candidate is
\* rejected.
C5_Exhausted ==
  Merging =>
    /\ WithinThreshold(NB) = {} =>
         /\ pc \in {"findMergePoint", "loop", "exhausted"}
         /\ prompts = <<>>
         /\ file = <<>>
         /\ pc = "loop" => index <= NB
    /\ pc = "exhausted" =>
         /\ file = <<>>
         /\ console = <<"Point to merge with", "No merge point found">>
         /\ Len(prompts) = Cardinality(WithinThreshold(NB))
         /\ Len(toMerge) = NB
         /\ index = NB

\* C5 witness: Exhausted over a begin Track none of whose points is within
\* the threshold.
C5_Witness ==
  /\ Merging
  /\ pc = "exhausted"
  /\ NB >= 2
  /\ WithinThreshold(NB) = {}

\* Exhausted after every candidate was rejected, and over an empty begin Track.
C5_AllRejectedReached == Merging /\ pc = "exhausted" /\ Len(prompts) >= 2

C5_EmptyBeginReached == Merging /\ pc = "exhausted" /\ NB = 0

\* C6: a confirmed merge changes only the timestamps of the prefix: every
\* end-Track point is written with its input time, latitude, longitude and
\* elevation, and every prefix point with its input latitude, longitude and
\* elevation.
C6_OnlyPrefixTimesChange ==
  (Merging /\ file # <<>>) =>
    LET i == LastPrompt.index
        out == file[1]
    IN /\ \A j \in 1..NE : out[i + 1 + j] = orig[NB + j]
       /\ \A k \in 1..(i + 1) : SameCoordsAndEle(out[k], orig[k])
       /\ \A k \in 1..(i + 1) : out[k].time # orig[k].time

\* C6 witness: a written merge of two prefix points and two end points.
C6_Witness ==
  /\ Merging
  /\ file # <<>>
  /\ NE >= 2
  /\ Len(toMerge) >= 2

\* The distances of the begin-Track points, by position.
Dists == [k \in 1..NB |-> OwnDist(k - 1).v]

\* The distances increase, then decrease, then increase again.
UpDownUp ==
  \E p \in 2..(NB - 1) : \E v \in (p + 1)..(NB - 1) :
    /\ \A k \in 1..(p - 1) : Dists[k] < Dists[k + 1]
    /\ \A k \in p..(v - 1) : Dists[k] > Dists[k + 1]
    /\ \A k \in v..(NB - 1) : Dists[k] < Dists[k + 1]

\* The indices of the globally closest points.
Closest == { i \in 0..(NB - 1) : \A j \in 0..(NB - 1) : Dists[i + 1] <= Dists[j + 1] }

\* The threshold admits the minimum distance only.
AdmitsOnlyMinimum == Closest # {} /\ WithinThreshold(NB) = Closest

\* The indices reported as the minimum so far.
FlaggedMinimum == { prompts[k].index : k \in { n \in 1..Len(prompts) : prompts[n].isMinDist } }

Latest(S) == CHOOSE i \in S : \A j \in S : j <= i

\* C7 as claimed: for distances going up, down and up again, a threshold
\* admitting only the minimum and an operator who rejects every candidate,
\* the is-minimum flag is true at exactly one index, the closest one, and
\* among tied closest points only at the later one.
C7_FlagOnlyAtLatestClosest ==
  (Merging /\ pc = "exhausted" /\ UpDownUp /\ AdmitsOnlyMinimum) =>
    FlaggedMinimum = {Latest(Closest)}

\* C7 amended: under the same conditions the is-minimum flag is true at
\* exactly the closest indices: at the single closest index when there is no
\* tie, and at every one of the tied closest indices when there is.
C7_FlagAtEveryClosest ==
  (Merging /\ pc = "exhausted" /\ UpDownUp /\ AdmitsOnlyMinimum) =>
    /\ FlaggedMinimum = Closest
    /\ Len(prompts) = Cardinality(Closest)

\* C7 witness: such a run with two tied closest points.
C7_Witness ==
  /\ Merging
  /\ pc = "exhausted"
  /\ UpDownUp
  /\ AdmitsOnlyMinimum
  /\ Cardinality(Closest) = 2
  /\ Len(prompts) = 2

\* C7 witness of the case without a tie.
C7_UniqueClosestReached ==
  /\ Merging
  /\ pc = "exhausted"
  /\ UpDownUp
  /\ AdmitsOnlyMinimum
  /\ Cardinality(Closest) = 1
  /\ FlaggedMinimum = Closest

\* C8: the distance shown for every candidate is that candidate's own
\* computed distance to the end Track's first point, also when an earlier
\* rejected candidate was closer.
C8_ShownDistanceIsOwn ==
  Merging => \A k \in 1..Len(prompts) : prompts[k].distance = OwnDist(prompts[k].index)

\* The shown distance is the running minimum (what line 147 prints).
C8_ShownDistanceIsRunningMinimum ==
  Merging =>
    \A k \in 1..Len(prompts) :
      \A j \in 1..k : Leq(prompts[k].distance, OwnDist(prompts[j].index))

\* x lies in the closed interval spanned by u and v.
InClosedInterval(x, u, v) ==
  /\ x.k = "num" /\ u.k = "num" /\ v.k = "num"
  /\ (IF u.v <= v.v THEN u.v ELSE v.v) <= x.v
  /\ x.v <= (IF u.v <= v.v THEN v.v ELSE u.v)

Point(lat, lng) == [lat |-> Num(lat), lng |-> Num(lng)]

\* C9: isBetween is true iff p.lat lies in the closed interval of a.lat and
\* b.lat or p.lng in that of a.lng and b.lng, whatever the order of a and b,
\* the endpoints included; isBetween((0,0),(-1,-1),(1,1)) is true and
\* isBetween((5,5),(0,0),(1,1)) is false.
C9_IsBetween ==
  (prog = "isBetween" /\ pc = "return") =>
    LET p == fnArgs[1]
        a == fnArgs[2]
        b == fnArgs[3]
    IN /\ fnResult = (\/ InClosedInterval(p.lat, a.lat, b.lat)
                      \/ InClosedInterval(p.lng, a.lng, b.lng))
       /\ fnResult = isBetween(p, b, a)
       /\ (p.lat = a.lat /\ p.lat.k = "num" /\ b.lat.k = "num") => fnResult = TRUE
       /\ fnArgs = <<Point(0, 0), Point(-1, -1), Point(1, 1)>> => fnResult = TRUE
       /\ fnArgs = <<Point(5, 5), Point(0, 0), Point(1, 1)>> => fnResult = FALSE

\* C9 witness: true for a point whose latitude alone lies in the interval.
C9_Witness ==
  /\ prog = "isBetween"
  /\ pc = "return"
  /\ fnArgs = <<Point(0, 5), Point(1, 1), Point(-1, -1)>>
  /\ fnResult = TRUE

\* The two examples of the claim are among the calls.
C9_ExamplesReached ==
  /\ prog = "isBetween"
  /\ pc = "return"
  /\ fnArgs = <<Point(5, 5), Point(0, 0), Point(1, 1)>>
  /\ fnResult = FALSE

\* == of JavaScript: NaN equals nothing, itself included.
JsEquals(x, y) == x.k # "NaN" /\ y.k # "NaN" /\ x = y

\* C10: haversineDist(a,b) equals haversineDist(b,a), haversineDist(a,a) is
\* 0, and the result is never negative.
C10_SymmetricZeroNonNegative ==
  (prog = "haversineDist" /\ pc = "return") =>
    /\ JsEquals(fnResult[1], fnResult[2])
    /\ ~(fnResult[1].k = "num" /\ fnResult[1].v < 0)
    /\ fnArgs[1] = fnArgs[2] => JsEquals(fnResult[1], Num(0))

\* Wherever the result is a number, the three properties hold.
C10_HoldsWhereNotNaN ==
  (prog = "haversineDist" /\ pc = "return" /\ fnResult[1].k # "NaN") =>
    /\ JsEquals(fnResult[1], fnResult[2])
    /\ fnResult[1].v >= 0
    /\ fnArgs[1] = fnArgs[2] => fnResult[1] = Num(0)

\* The begin-Track points scanned so far are those pushed to toMerge.
Scanned == Len(toMerge)

\* C11: at every point of the scan the running minimum is +infinity when no
\* qualifying point was scanned yet and otherwise the smallest distance among
\* the qualifying points scanned so far, so never above thresholdMeters; a
\* candidate is flagged as the minimum iff its distance is <= that of every
\* qualifying point at a lower index, so a tie is flagged and the first
\* candidate always is; a point beyond the threshold leaves the running
\* minimum as it was.
C11_RunningMinimum ==
  (Merging /\ pc # "findMergePoint") =>
    LET \* the distances of the points scanned, and the qualifying indices
        D == [i \in 0..(Scanned - 1) |-> OwnDist(i).v]
        Q == { i \in 0..(Scanned - 1) : D[i] <= thresholdMeters.v }
        \* the smallest distance among the points at the indices of S
        MinOver(S) ==
          IF S = {} THEN POSITIVE_INFINITY
          ELSE Num(D[CHOOSE i \in S : \A j \in S : D[i] <= D[j]])
    IN /\ minDist = MinOver(Q)
       /\ (minDist = POSITIVE_INFINITY) = (Q = {})
       /\ minDist.k \in {"num", "Infinity"}
       /\ minDist.k = "num" => minDist.v <= thresholdMeters.v
       /\ \A k \in 1..Len(prompts) :
            prompts[k].isMinDist =
              (\A j \in Q : j < prompts[k].index => D[prompts[k].index] <= D[j])
       /\ prompts # <<>> => prompts[1].isMinDist
       /\ (pc = "loop" /\ index > 0 /\ (index - 1) \notin Q) =>
            minDist = MinOver(Q \ {index - 1})

\* C11 witness: a candidate tied with the running minimum was flagged, a
\* point beyond the threshold was passed, and the candidate now shown is
\* farther than the running minimum and not flagged.
C11_Witness ==
  /\ Merging
  /\ pc = "userConfirm"
  /\ Len(prompts) >= 3
  /\ \E k \in 2..Len(prompts) :
       /\ prompts[k].isMinDist
       /\ \E j \in 1..(k - 1) : OwnDist(prompts[j].index) = OwnDist(prompts[k].index)
  /\ \E i \in 0..(index - 1) : i \notin WithinThreshold(NB)
  /\ ~LastPrompt.isMinDist
  /\ minDist.v < OwnDist(index).v

\* The coordinates, as numbers, of the begin-Track point at index i (from 0)
\* and of the end Track's first point, as loaded.
BeginLatLng(i) == [lat |-> parseFloat(orig[i + 1].lat), lng |-> parseFloat(orig[i + 1].lon)]

EndFirstLatLng == [lat |-> parseFloat(orig[NB + 1].lat), lng |-> parseFloat(orig[NB + 1].lon)]

\* p's latitude lies in the closed interval of a's and b's, or its longitude does.
BetweenByIntervals(p, a, b) ==
  \/ InClosedInterval(p.lat, a.lat, b.lat)
  \/ InClosedInterval(p.lng, a.lng, b.lng)

\* C12 as claimed: the between-flag of the candidate at index i is
\* isBetween(endFirstPoint, P_i, P_next), where P_next is the point at i+1,
\* or P_i itself when i is the last index; so for a last-index candidate it
\* is true exactly when the end Track's first point has the latitude or the
\* longitude of P_i.
C12_BetweenFlagOrSelf ==
  Merging =>
    \A k \in 1..Len(prompts) :
      LET i == prompts[k].index
          next == IF i < NB - 1 THEN i + 1 ELSE i
      IN /\ prompts[k].inBetween =
              BetweenByIntervals(EndFirstLatLng, BeginLatLng(i), BeginLatLng(next))
         /\ i = NB - 1 =>
              prompts[k].inBetween =
                (\/ EndFirstLatLng.lat = BeginLatLng(i).lat
                 \/ EndFirstLatLng.lng = BeginLatLng(i).lng)

\* C12 amended: the between-flag of the candidate at index i is
\* isBetween(endFirstPoint, P_i, P_next) when there is a point at i+1, and
\* false when i is the last index, whatever the coordinates of P_i.
C12_BetweenFlagFalseAtLast ==
  Merging =>
    \A k \in 1..Len(prompts) :
      LET i == prompts[k].index
      IN prompts[k].inBetween =
           (/\ i < NB - 1
            /\ BetweenByIntervals(EndFirstLatLng, BeginLatLng(i), BeginLatLng(i + 1)))

\* C12 witness: an earlier candidate was reported between, and the candidate
\* at the last index, at the latitude and longitude of the end Track's first
\* point, is reported not between.
C12_Witness ==
  /\ Merging
  /\ pc = "userConfirm"
  /\ index = NB - 1
  /\ Len(prompts) >= 2
  /\ prompts[1].inBetween
  /\ BeginLatLng(index) = EndFirstLatLng
  /\ ~LastPrompt.inBetween

\* A candidate that is not at the last index is reported not between.
C12_NotBetweenBeforeLastReached ==
  /\ Merging
  /\ pc = "userConfirm"
  /\ index < NB - 1
  /\ ~LastPrompt.inBetween

\* C13: the merged output shares no mutable state with the inputs: after a
\* confirmed merge at index i the begin Track as loaded still holds its input
\* timestamps at the indices 0..i, and the end Track as loaded still holds
\* its input point sequence, of the same length and the same points.
C13_InputsUntouched ==
  (Merging /\ pc = "confirmed") =>
    /\ \A k \in 1..Len(toMerge) : obj[beginXml[k]].time = orig[beginXml[k]].time
    /\ Len(endXml) = NE
    /\ endXml = Range(NB + 1, NB + NE)
    /\ \A j \in 1..NE : obj[NB + j] = orig[NB + j]

\* What the code does instead: the begin Track's points at 0..i are the very
\* objects that were written, with the new times, and the end Track's array
\* has become the merged sequence.
C13_InputsAreTheOutput ==
  (Merging /\ pc = "confirmed") =>
    /\ \A k \in 1..Len(toMerge) :
         /\ toMerge[k] = beginXml[k]
         /\ obj[beginXml[k]] = file[1][k]
         /\ obj[beginXml[k]].time # orig[beginXml[k]].time
    /\ endXml = toMerge \o Range(NB + 1, NB + NE)
    /\ \A j \in 1..NE : obj[NB + j] = orig[NB + j]

\* The last message on the console.
LastMessage == console[Len(console)]

Mentions(message) == \E n \in 1..Len(console) : console[n] = message

\* No point of either Track has another time than the one it was loaded with.
InputTimes == \A id \in DOMAIN obj : obj[id].time = orig[id].time

\* C14 (states): while the search scans or waits, and when it ends
\* Exhausted, every point of both Tracks carries its input time; a time
\* differs from the input only after an accepting answer and the 'merging'
\* message; the file is written after 'merging' and before 'written'.
C14_States ==
  Merging =>
    /\ (Searching \/ pc \in {"exhausted", "mergeFiles"}) =>
         /\ InputTimes
         /\ ~Mentions("merging")
         /\ ~Mentions("merged output written")
    /\ ~InputTimes =>
         /\ pc \in {"splice", "write", "written", "confirmed"}
         /\ answer \in {<<"y">>, <<"Y", "E", "S">>, <<"o", "k", "a", "y">>}
         /\ Mentions("merging")
    /\ pc \in {"splice", "write"} => (file = <<>> /\ LastMessage = "merging")
    /\ pc = "written" => (Len(file) = 1 /\ LastMessage = "merging")
    /\ pc = "confirmed" =>
         /\ Len(file) = 1
         /\ LastMessage = "merged output written"
         /\ console[Len(console) - 1] = "merging"
    /\ Mentions("merged output written") => file # <<>>
    /\ file # <<>> => (Mentions("merging") /\ ~InputTimes)

\* C14 (steps): a step changes a point only on entering mergeFiles after an
\* acceptance, before the write, and no step after that changes one again.
C14_Steps ==
  (Merging /\ obj' # obj) =>
    /\ pc = "mergeFiles" /\ pc' = "splice"
    /\ obj = orig
    /\ file = <<>> /\ file' = <<>>

\* C14: timestamps are rewritten once per run, after an acceptance and
\* before the single write; while the search scans or waits and in a run
\* that ends Exhausted every point keeps its input timestamp; the 'merging'
\* message precedes the write, which precedes the 'written' message.
C14_RewrittenOnceBeforeWrite == [](C14_States) /\ [][C14_Steps]_vars

\* C14 witness: a run that rejected a candidate, accepted a later one,
\* rewrote the times of the prefix, wrote the file and reported it.
C14_Witness ==
  /\ Merging
  /\ pc = "confirmed"
  /\ Len(prompts) >= 2
  /\ ~InputTimes
  /\ Len(file) = 1
  /\ console[Len(console) - 1] = "merging"
  /\ LastMessage = "merged output written"

\* findMergePoint has ended: it returned after mergeFiles, fell out of the
\* loop, or mergeFiles threw.
Ended == pc \in {"confirmed", "exhausted", "rejected"}

NoMergePoint == Mentions("No merge point found")

\* The operator's last answer accepts (y or yes in it, in any case).
LastAnswerAccepts == answer \in {<<"y">>, <<"Y", "E", "S">>, <<"o", "k", "a", "y">>}

\* Confirmed: a candidate was accepted and the output written.
Confirmed ==
  /\ pc = "confirmed"
  /\ prompts # <<>>
  /\ LastAnswerAccepts
  /\ Len(file) = 1

\* Exhausted: index N was reached with no acceptance.
Exhausted ==
  /\ pc = "exhausted"
  /\ index = NB
  /\ ~LastAnswerAccepts
  /\ file = <<>>
  /\ NoMergePoint

\* mergeFiles threw: a candidate was accepted, the time of the end Track's
\* first point does not parse, and nothing was written.
Failed ==
  /\ pc = "rejected"
  /\ prompts # <<>>
  /\ LastAnswerAccepts
  /\ orig[NB + 1].time.fmt = "none"
  /\ file = <<>>

\* C15 as claimed (its outcomes): with at most N prompts, findMergePoint
\* ends in exactly one of Confirmed (a candidate accepted, the output
\* written) and Exhausted (index N reached with no acceptance), and the
\* no-merge-point message is never emitted in a run that wrote output.
C15_ConfirmedOrExhausted ==
  Merging =>
    /\ Len(prompts) <= NB
    /\ Ended => (Confirmed \/ Exhausted)
    /\ ~(Confirmed /\ Exhausted)
    /\ file # <<>> => ~NoMergePoint

\* The outcomes as amended: a third one, the error of mergeFiles.
C15_Outcomes ==
  Merging =>
    /\ Len(prompts) <= NB
    /\ Ended => (Confirmed \/ Exhausted \/ Failed)
    /\ ~(Confirmed /\ Exhausted) /\ ~(Confirmed /\ Failed) /\ ~(Exhausted /\ Failed)
    /\ file # <<>> => ~NoMergePoint
    /\ pc = "rejected" => ~NoMergePoint
    /\ (orig[NB + 1].time.fmt # "none" /\ Ended) => (Confirmed \/ Exhausted)

\* C15 amended: when every prompt is answered, findMergePoint over N points
\* ends, after at most N prompts, in exactly one of Confirmed, Exhausted and
\* the error mergeFiles throws when a candidate is accepted and the time of
\* the end Track's first point does not parse; the no-merge-point message
\* is never emitted in a run that wrote output; and nothing happens after
\* the end.
C15_Terminates ==
  /\ [](C15_Outcomes)
  /\ Merging => <>Ended
  /\ [][(Merging /\ Ended) => UNCHANGED vars]_vars

\* C15 witness: Confirmed at the last of N points, after N prompts.
C15_Witness ==
  /\ Merging
  /\ Confirmed
  /\ NB >= 3
  /\ Len(prompts) = NB
  /\ ~NoMergePoint

\* The other two outcomes: Exhausted after N rejections, and the error.
C15_ExhaustedReached == Merging /\ Exhausted /\ NB >= 3 /\ Len(prompts) = NB

C15_FailedReached == Merging /\ Failed /\ Len(prompts) >= 2

\* The answer, ignoring letter case, is y or yes.
IsYOrYes(ans) == toLowerCase(ans) \in {<<"y">>, <<"y", "e", "s">>}

\* The answer has the letter y in it, in either case.
HasY(ans) == \E n \in 1..Len(ans) : ans[n] \in {"y", "Y"}

\* C16: userConfirm resolves true iff the answer, ignoring letter case, is
\* y or yes; every other answer (n, the empty string, a word that merely
\* contains the letter y) resolves false: the candidate is rejected and the
\* scan continues.
C16_OnlyYOrYes ==
  Merging =>
    /\ Accepted => IsYOrYes(answer)
    /\ (pc \in {"loop", "exhausted"} /\ answer # None) => ~IsYOrYes(answer)

\* What the code does: userConfirm resolves true iff the answer has the
\* letter y in it, in either case.
C16_AnyAnswerWithY ==
  Merging =>
    /\ Accepted => HasY(answer)
    /\ (pc \in {"loop", "exhausted"} /\ answer # None) => ~HasY(answer)

\* A candidate was accepted on the answer okay.
C16_OkayAcceptedReached == Merging /\ pc = "confirmed" /\ answer = <<"o", "k", "a", "y">>

\* The end Track's first point, as loaded, has no time that parses.
EndTimeUnparseable == orig[NB + 1].time.fmt = "none"

\* C17: when the end Track's first point has no timestamp or one that does
\* not parse, accepting a candidate ends mergeFiles in an error before
\* anything is written: there is no output file, no begin-Track timestamp
\* was modified and the end Track's point sequence is as loaded.
C17_ErrorBeforeAnyWrite ==
  (Merging /\ EndTimeUnparseable) =>
    /\ pc \notin {"splice", "write", "written", "confirmed"}
    /\ file = <<>>
    /\ \A k \in 1..NB : obj[beginXml[k]].time = orig[k].time
    /\ obj = orig
    /\ beginXml = Range(1, NB)
    /\ endXml = Range(NB + 1, NB + NE)
    /\ ~Mentions("merged output written")
    /\ pc = "rejected" =>
         /\ HasY(answer)
         /\ LastMessage = "merging"
         /\ Len(toMerge) = LastPrompt.index + 1

\* C17 witness: mergeFiles threw after a candidate at index 1 or above was
\* accepted, with an end Track of two points or more.
C17_Witness ==
  /\ Merging
  /\ EndTimeUnparseable
  /\ pc = "rejected"
  /\ Len(toMerge) >= 2
  /\ NE >= 2
  /\ file = <<>>

=============================================================================
